---- MODULE Spec2Model ----
(***************************************************************************)
(* Model of the requirements evaluator backend: the Lambda handler         *)
(* (index.js), the DynamoDB fixed-window rate limiter (rateLimit.js) and   *)
(* the Bedrock evaluation with its response normaliser (evaluator.js).     *)
(*                                                                         *)
(* Each Lambda execution environment ("container") handles one invocation  *)
(* at a time; an invocation is cut into atomic steps at its awaits on the  *)
(* DynamoDB client and on the Bedrock client.                              *)
(***************************************************************************)
EXTENDS Integers, Sequences, FiniteSets, TLC

\* ------------------------------------------------------------------ bounds
MaxTime == 3              \* the clock (seconds) runs over 0..MaxTime
MaxRequests == 3          \* invocations started in one behaviour
MaxPad == 1               \* leading / trailing whitespace of a string
MaxTextLen == 3           \* tokens of a model reply text
NumContainers == 2        \* Lambda execution environments
MaxComment == 1           \* tokens of commentary on each side of an object
MaxSuggestionLen == 2     \* entries of the exhaustively enumerated suggestion lists

\* ------------------------------------------------- program configuration
\* RATE_LIMIT_MAX and RATE_LIMIT_WINDOW are read from the environment; the
\* model runs the limiter with a small quota and a small window.
MAX_REQUESTS_PER_WINDOW == 2
WINDOW_SIZE_SECONDS == 2
MAX_SUGGESTIONS == 5
MinLength == 10
MaxLength == 2000

Containers == 1..NumContainers

\* ------------------------------------------------------------- JS values
\* A JavaScript value as JSON can carry it.  A number n stands for n/10, so
\* that fractional scores exist.  A string is its leading whitespace, its
\* core (a tag naming the content and the content's length; the core neither
\* starts nor ends with whitespace) and its trailing whitespace.
JsVal(t, b, n, lead, core, len, trail) ==
    [t |-> t, b |-> b, n |-> n, lead |-> lead, core |-> core, len |-> len, trail |-> trail]
Undefined == JsVal("undefined", FALSE, 0, 0, "", 0, 0)
Null == JsVal("null", FALSE, 0, 0, "", 0, 0)
Bool(b) == JsVal("boolean", b, 0, 0, "", 0, 0)
Num(n) == JsVal("number", FALSE, n, 0, "", 0, 0)
Str(lead, core, len, trail) == JsVal("string", FALSE, 0, lead, core, len, trail)
Obj == JsVal("object", FALSE, 0, 0, "", 0, 0)
Arr == JsVal("array", FALSE, 0, 0, "", 0, 0)

\* ToBoolean: the falsy values are undefined, null, false, 0 and "".
Truthy(v) ==
    CASE v.t = "undefined" -> FALSE
      [] v.t = "null" -> FALSE
      [] v.t = "boolean" -> v.b
      [] v.t = "number" -> v.n # 0
      [] v.t = "string" -> v.lead + v.len + v.trail > 0
      [] OTHER -> TRUE

\* String.prototype.trim and String.prototype.length
Trim(s) == Str(0, s.core, s.len, 0)
Length(s) == s.lead + s.len + s.trail

\* ------------------------------------------------------- index.js: events
AbsentIp == "none"        \* no such property / header on the event
UnknownIp == "unknown"    \* the sentinel getClientIp falls back to

\* event.body as API Gateway delivers it: absent (null), the empty string,
\* a text that is not JSON, or JSON text.  For JSON text, top is the kind of
\* the top-level value and requirement the value of its "requirement"
\* property (Undefined when the property is missing or the value has none).
Body(kind, top, requirement) == [kind |-> kind, top |-> top, requirement |-> requirement]

ReqLens == {MinLength - 1, MinLength, MaxLength, MaxLength + 1}
ReqStrings ==
    {Str(l, "req", n, t) : l \in {0, MaxPad}, n \in ReqLens, t \in {0, MaxPad}}
        \cup {Str(l, "", 0, 0) : l \in {0, MaxPad}}
ReqValues ==
    ReqStrings \cup {Undefined, Null, Bool(TRUE), Bool(FALSE), Num(0), Num(420), Obj, Arr}
Bodies ==
    {Body("absent", "object", Undefined), Body("empty", "object", Undefined),
     Body("invalid", "object", Undefined),
     Body("json", "null", Undefined), Body("json", "number", Undefined),
     Body("json", "array", Undefined)}
        \cup {Body("json", "object", v) : v \in ReqValues}

\* The X-Forwarded-For header: a comma-separated chain, here the sequence of
\* its entries, each an address with the whitespace around it.
XffEntry(lead, addr, trail) == [lead |-> lead, addr |-> addr, trail |-> trail]
Event(method, body, sourceIp, xff) ==
    [httpMethod |-> method, body |-> body, sourceIp |-> sourceIp, xff |-> xff]

\* ------------------------------------------------------ index.js: handler
CORS_HEADERS ==
    [AccessControlAllowOrigin |-> "*",
     AccessControlAllowHeaders |-> "Content-Type,Authorization",
     AccessControlAllowMethods |-> "POST,OPTIONS",
     ContentType |-> "application/json"]

createResponse(statusCode, body) ==
    [statusCode |-> statusCode, headers |-> CORS_HEADERS, body |-> body]
NoResponse == [statusCode |-> 0, headers |-> CORS_HEADERS, body |-> <<"none">>]

ErrorBody(error, message) == <<"error", error, message>>
GenericErrorBody ==
    ErrorBody("Internal Server Error", "An error occurred while processing your request")

\* A thrown error: its name and its message.
Thrown(name, message) == [name |-> name, message |-> message]

\* parseRequestBody letting the SyntaxError of JSON.parse through.
parseRequestBodyUnwrapped(body) ==
    CASE body.kind \in {"absent", "empty"} ->
            [throws |-> FALSE, error |-> Thrown("", ""), top |-> "object", requirement |-> Undefined]
      [] body.kind = "invalid" ->
            [throws |-> TRUE, error |-> Thrown("SyntaxError", "Unexpected token"),
             top |-> "object", requirement |-> Undefined]
      [] OTHER ->
            [throws |-> FALSE, error |-> Thrown("", ""), top |-> body.top,
             requirement |-> body.requirement]

\* parseRequestBody: {} for a falsy body, JSON.parse otherwise, a
\* ValidationError when JSON.parse throws.
parseRequestBody(body) ==
    CASE body.kind \in {"absent", "empty"} ->
            [throws |-> FALSE, error |-> Thrown("", ""), top |-> "object", requirement |-> Undefined]
      [] body.kind = "invalid" ->
            [throws |-> TRUE, error |-> Thrown("ValidationError", "Invalid JSON in request body"),
             top |-> "object", requirement |-> Undefined]
      [] OTHER ->
            [throws |-> FALSE, error |-> Thrown("", ""), top |-> body.top,
             requirement |-> body.requirement]

\* The catch block putting the error's message into the 500.
ErrorResponseLeaking(error) ==
    IF error.name = "ValidationError"
    THEN createResponse(400, ErrorBody("Bad Request", error.message))
    ELSE createResponse(500, ErrorBody("Internal Server Error", error.message))

\* The catch block throwing anything but a ValidationError again: the
\* invocation ends as a function error, without a response of the handler.
ErrorResponseRethrowing(error) ==
    IF error.name = "ValidationError"
    THEN createResponse(400, ErrorBody("Bad Request", error.message))
    ELSE [statusCode |-> 0, headers |-> CORS_HEADERS, body |-> <<"unhandled", error.name>>]

\* The handler's catch block: a ValidationError is a 400 carrying its
\* message, anything else the generic 500.
ErrorResponse(error) ==
    IF error.name = "ValidationError"
    THEN createResponse(400, ErrorBody("Bad Request", error.message))
    ELSE createResponse(500, GenericErrorBody)

\* The length checks of the trimmed requirement.
LengthResponse(requirement) ==
    IF Length(requirement) < MinLength
    THEN createResponse(400, ErrorBody("Bad Request", "Requirement must be at least 10 characters long"))
    ELSE IF Length(requirement) > MaxLength
    THEN createResponse(400, ErrorBody("Bad Request", "Requirement must not exceed 2000 characters"))
    ELSE NoResponse

\* The handler checking the length of the requirement as sent, untrimmed.
\* ValidationResponse with the body parsed before the OPTIONS answer.
ValidationResponseParseFirst(event) ==
    LET parsed == parseRequestBody(event.body) IN
    IF parsed.throws THEN ErrorResponse(parsed.error)
    ELSE IF event.httpMethod = "OPTIONS" THEN createResponse(200, <<"message", "OK">>)
    ELSE IF parsed.top = "null"
    THEN ErrorResponse(Thrown("TypeError", "Cannot read properties of null"))
    ELSE IF ~Truthy(parsed.requirement)
    THEN createResponse(400, ErrorBody("Bad Request", "Missing required field: requirement"))
    ELSE IF parsed.requirement.t # "string"
    THEN ErrorResponse(Thrown("TypeError", "body.requirement.trim is not a function"))
    ELSE LengthResponse(Trim(parsed.requirement))

ValidationResponseUntrimmed(event) ==
    IF event.httpMethod = "OPTIONS" THEN createResponse(200, <<"message", "OK">>)
    ELSE LET parsed == parseRequestBody(event.body) IN
         IF parsed.throws THEN ErrorResponse(parsed.error)
         ELSE IF parsed.top = "null"
         THEN ErrorResponse(Thrown("TypeError", "Cannot read properties of null"))
         ELSE IF ~Truthy(parsed.requirement)
         THEN createResponse(400, ErrorBody("Bad Request", "Missing required field: requirement"))
         ELSE IF parsed.requirement.t # "string"
         THEN ErrorResponse(Thrown("TypeError", "body.requirement.trim is not a function"))
         ELSE LengthResponse(parsed.requirement)

\* The handler up to the rate-limit check: the response it returns, or
\* NoResponse when the request passes validation.  Reading a property of
\* null and calling trim on a value that has none throw a TypeError, which
\* the catch block receives.
ValidationResponse(event) ==
    IF event.httpMethod = "OPTIONS" THEN createResponse(200, <<"message", "OK">>)
    ELSE LET parsed == parseRequestBody(event.body) IN
         IF parsed.throws THEN ErrorResponse(parsed.error)
         ELSE IF parsed.top = "null"
         THEN ErrorResponse(Thrown("TypeError", "Cannot read properties of null"))
         ELSE IF ~Truthy(parsed.requirement)
         THEN createResponse(400, ErrorBody("Bad Request", "Missing required field: requirement"))
         ELSE IF parsed.requirement.t # "string"
         THEN ErrorResponse(Thrown("TypeError", "body.requirement.trim is not a function"))
         ELSE LengthResponse(Trim(parsed.requirement))

\* getClientIp: the source address of the request context, else the first
\* entry of X-Forwarded-For, trimmed, else the sentinel.
getClientIp(event) ==
    IF event.sourceIp # AbsentIp /\ event.sourceIp # "" THEN event.sourceIp
    ELSE IF Len(event.xff) > 0 THEN event.xff[1].addr
    ELSE UnknownIp

\* ---------------------------------------------------------- rateLimit.js
\* The DynamoDB table, one item per key IP#<clientIp>.
Keys == {"ip1", "ip2"}
NoItem == [exists |-> FALSE, requestCount |-> 0, lastReset |-> 0, ttl |-> 0]
Item(requestCount, lastReset, ttl) ==
    [exists |-> TRUE, requestCount |-> requestCount, lastReset |-> lastReset, ttl |-> ttl]

\* The guard without the sentinel.
SkipsRateLimitFlagOnly(clientIp, skipFlag) == skipFlag

\* The guard shared by checkRateLimit and recordRequest.
SkipsRateLimit(clientIp, skipFlag) == clientIp = UnknownIp \/ skipFlag

\* checkRateLimit taking the window as expired from lastReset <= windowStart
\* on, while recordRequest's condition stays lastReset >= :windowStart.
IsRateLimitedEarlyExpiry(item, t) ==
    IF ~item.exists THEN FALSE
    ELSE IF item.lastReset <= t - WINDOW_SIZE_SECONDS THEN FALSE
    ELSE item.requestCount >= MAX_REQUESTS_PER_WINDOW

\* checkRateLimit comparing the count with > in place of >=.
IsRateLimitedStrict(item, t) ==
    IF ~item.exists THEN FALSE
    ELSE IF item.lastReset < t - WINDOW_SIZE_SECONDS THEN FALSE
    ELSE item.requestCount > MAX_REQUESTS_PER_WINDOW

\* checkRateLimit once GetItem has answered: item is the item read, t the
\* value of now the call computed before it sent the command.
IsRateLimited(item, t) ==
    IF ~item.exists THEN FALSE
    ELSE IF item.lastReset < t - WINDOW_SIZE_SECONDS THEN FALSE
    ELSE item.requestCount >= MAX_REQUESTS_PER_WINDOW

\* recordRequest's ConditionExpression without attribute_not_exists(lastReset).
ConditionHoldsExistingOnly(item, t) ==
    item.exists /\ item.lastReset >= t - WINDOW_SIZE_SECONDS

\* recordRequest's ConditionExpression, evaluated by the store on the item
\* it holds: attribute_not_exists(lastReset) OR lastReset >= :windowStart.
ConditionHolds(item, t) ==
    ~item.exists \/ item.lastReset >= t - WINDOW_SIZE_SECONDS

\* recordRequest's UpdateExpression with #ttl = if_not_exists(#ttl, :ttl).
IncrementedItemKeepsTtl(item, t) ==
    Item((IF item.exists THEN item.requestCount ELSE 0) + 1,
         IF item.exists THEN item.lastReset ELSE t,
         IF item.exists THEN item.ttl ELSE t + WINDOW_SIZE_SECONDS * 2)

\* recordRequest's UpdateExpression with lastReset = :now in the place of
\* if_not_exists(lastReset, :now): a sliding window.
IncrementedItemSliding(item, t) ==
    Item((IF item.exists THEN item.requestCount ELSE 0) + 1, t, t + WINDOW_SIZE_SECONDS * 2)

\* recordRequest's UpdateExpression.
IncrementedItem(item, t) ==
    Item((IF item.exists THEN item.requestCount ELSE 0) + 1,
         IF item.exists THEN item.lastReset ELSE t,
         t + WINDOW_SIZE_SECONDS * 2)

\* resetRateLimitCounter's UpdateExpression.
ResetItem(t) == Item(1, t, t + WINDOW_SIZE_SECONDS * 2)

\* ----------------------------------------------------------- evaluator.js
Min(a, b) == IF a < b THEN a ELSE b
Max(a, b) == IF a > b THEN a ELSE b

\* Math.floor in the place of Math.round.
MathFloor(n) == n \div 10

\* Math.round of a number given in tenths: floor(x + 0.5).
MathRound(n) == (n + 5) \div 10

\* The reply text of the model, as a sequence of tokens: an opening brace, a
\* closing brace, a member of an object ("v": a key with a scalar or array
\* value), a member whose string value holds brace characters ("b", as in
\* "feedback":"use {id}") and anything else ("w": commentary).
Tokens == {"{", "}", "v", "b", "w"}
Texts == UNION {[1..n -> Tokens] : n \in 0..MaxTextLen}

\* content.match(/\{[\s\S]*\}/): the leftmost opening brace character up to
\* the last closing brace character after it; <<>> when there is no match. A
\* match that starts or ends inside a "b" token cuts that member in two, so
\* the token stays at the end of the match, where JSON.parse rejects it.
Positions(text, tok) == {i \in 1..Len(text) : text[i] = tok}
SetMin(S) == CHOOSE x \in S : \A y \in S : x <= y
SetMax(S) == CHOOSE x \in S : \A y \in S : x >= y
jsonMatch(text) ==
    LET opens == Positions(text, "{") \cup Positions(text, "b")
        closes == Positions(text, "}") \cup Positions(text, "b")
        first == SetMin(opens)
        after == {j \in closes : j > first \/ (j = first /\ text[j] = "b")}
    IN IF opens = {} THEN <<>>
       ELSE IF after = {} THEN <<>>
       ELSE SubSeq(text, first, SetMax(after))

\* JSON.parse of a text that starts with an opening brace succeeds when the
\* text is one object: members and nested objects only, with the braces
\* balanced and the first brace closed by the last token.
RECURSIVE Depth(_, _)
Depth(toks, i) ==
    IF i = 0 THEN 0
    ELSE Depth(toks, i - 1) + (IF toks[i] = "{" THEN 1 ELSE IF toks[i] = "}" THEN -1 ELSE 0)
JsonParses(toks) ==
    /\ Len(toks) >= 2
    /\ toks[1] = "{"
    /\ \A i \in 1..Len(toks) : toks[i] # "w"
    /\ \A i \in 1..(Len(toks) - 1) : Depth(toks, i) > 0
    /\ Depth(toks, Len(toks)) = 0

\* The object JSON.parse returns: each category with its score and feedback
\* (Undefined where the category or the property is missing) and the
\* suggestions property (isArray, and the entries when it is an array).
Category(score, feedback) == [score |-> score, feedback |-> feedback]
Suggestions(isArray, items) == [isArray |-> isArray, items |-> items]
Parsed(ambiguity, testability, completeness, suggestions) ==
    [ambiguity |-> ambiguity, testability |-> testability,
     completeness |-> completeness, suggestions |-> suggestions]
Text(core, len) == Str(0, core, len, 0)

\* validateCategory without the clamp of the rounded score.
validateCategoryUnclamped(category, name) ==
    [score |-> IF category.score.t = "number" THEN MathRound(category.score.n) ELSE 5,
     feedback |-> IF category.feedback.t = "string"
                  THEN Trim(category.feedback)
                  ELSE CASE name = "ambiguity" -> Text("Unable to evaluate ambiguity.", 29)
                         [] name = "testability" -> Text("Unable to evaluate testability.", 31)
                         [] OTHER -> Text("Unable to evaluate completeness.", 32)]

validateCategory(category, name) ==
    [score |-> IF category.score.t = "number"
               THEN Max(1, Min(10, MathRound(category.score.n)))
               ELSE 5,
     feedback |-> IF category.feedback.t = "string"
                  THEN Trim(category.feedback)
                  ELSE CASE name = "ambiguity" -> Text("Unable to evaluate ambiguity.", 29)
                         [] name = "testability" -> Text("Unable to evaluate testability.", 31)
                         [] OTHER -> Text("Unable to evaluate completeness.", 32)]

IsSuggestion(s) == s.t = "string" /\ Trim(s).len > 0
RECURSIVE TrimAll(_)
TrimAll(items) ==
    IF items = <<>> THEN <<>> ELSE <<Trim(Head(items))>> \o TrimAll(Tail(items))
\* validateSuggestions with slice(0, MAX_SUGGESTIONS - 1).
validateSuggestionsOneShort(suggestions) ==
    IF ~suggestions.isArray THEN <<>>
    ELSE LET kept == TrimAll(SelectSeq(suggestions.items, IsSuggestion))
         IN SubSeq(kept, 1, Min(MAX_SUGGESTIONS - 1, Len(kept)))

\* validateSuggestions with the slice taken before the filter.
validateSuggestionsSliceFirst(suggestions) ==
    IF ~suggestions.isArray THEN <<>>
    ELSE LET first == SubSeq(suggestions.items, 1,
                             Min(MAX_SUGGESTIONS, Len(suggestions.items)))
         IN TrimAll(SelectSeq(first, IsSuggestion))

validateSuggestions(suggestions) ==
    IF ~suggestions.isArray THEN <<>>
    ELSE LET kept == TrimAll(SelectSeq(suggestions.items, IsSuggestion))
         IN SubSeq(kept, 1, Min(MAX_SUGGESTIONS, Len(kept)))

\* getDefaultEvaluation without its retry suggestion.
getDefaultEvaluationNoSuggestion ==
    [ambiguity |-> [score |-> 5,
                    feedback |-> Text("Unable to fully evaluate ambiguity. Please try again.", 53)],
     testability |-> [score |-> 5,
                      feedback |-> Text("Unable to fully evaluate testability. Please try again.", 55)],
     completeness |-> [score |-> 5,
                       feedback |-> Text("Unable to fully evaluate completeness. Please try again.", 56)],
     suggestions |-> <<>>]

getDefaultEvaluation ==
    [ambiguity |-> [score |-> 5,
                    feedback |-> Text("Unable to fully evaluate ambiguity. Please try again.", 53)],
     testability |-> [score |-> 5,
                      feedback |-> Text("Unable to fully evaluate testability. Please try again.", 55)],
     completeness |-> [score |-> 5,
                       feedback |-> Text("Unable to fully evaluate completeness. Please try again.", 56)],
     suggestions |-> <<Text("Please try submitting your requirement again.", 45)>>]

\* parseEvaluationResponse without its catch block's default.
parseEvaluationResponseUnguarded(text, parsed) ==
    [ambiguity |-> validateCategory(parsed.ambiguity, "ambiguity"),
     testability |-> validateCategory(parsed.testability, "testability"),
     completeness |-> validateCategory(parsed.completeness, "completeness"),
     suggestions |-> validateSuggestions(parsed.suggestions)]

\* parseEvaluationResponse: text is the reply text, parsed the object its
\* matched part denotes when JSON.parse accepts it.
parseEvaluationResponse(text, parsed) ==
    IF jsonMatch(text) = <<>> THEN getDefaultEvaluation
    ELSE IF ~JsonParses(jsonMatch(text)) THEN getDefaultEvaluation
    ELSE [ambiguity |-> validateCategory(parsed.ambiguity, "ambiguity"),
          testability |-> validateCategory(parsed.testability, "testability"),
          completeness |-> validateCategory(parsed.completeness, "completeness"),
          suggestions |-> validateSuggestions(parsed.suggestions)]

\* What the Bedrock client answers: the send rejects (err names the cause),
\* the response body is not JSON, the body has no content[0].text, the text
\* is not a string, or the text is text (the empty text included).
Reply(kind, err, text, parsed) == [kind |-> kind, err |-> err, text |-> text, parsed |-> parsed]

\* The error evaluateRequirement rethrows, with the cause in its message.
BedrockError(cause) ==
    Thrown("Error",
           CASE cause = "TimeoutError" -> "Bedrock evaluation failed: Request timed out"
             [] cause = "ThrottlingException" -> "Bedrock evaluation failed: Too many requests"
             [] cause = "SyntaxError" -> "Bedrock evaluation failed: Unexpected token"
             [] cause = "TypeError" -> "Bedrock evaluation failed: content.substring is not a function"
             [] OTHER -> "Bedrock evaluation failed: Empty response from Bedrock")

\* evaluateRequirement once the Bedrock client has answered.
evaluateRequirement(reply) ==
    CASE reply.kind = "sendError" ->
            [throws |-> TRUE, error |-> BedrockError(reply.err), value |-> getDefaultEvaluation]
      [] reply.kind = "badEnvelope" ->
            [throws |-> TRUE, error |-> BedrockError("SyntaxError"), value |-> getDefaultEvaluation]
      [] reply.kind = "nonString" ->
            [throws |-> TRUE, error |-> BedrockError("TypeError"), value |-> getDefaultEvaluation]
      [] reply.kind = "noContent" \/ reply.text = <<>> ->
            [throws |-> TRUE, error |-> BedrockError("Empty"), value |-> getDefaultEvaluation]
      [] OTHER ->
            [throws |-> FALSE, error |-> Thrown("", ""),
             value |-> parseEvaluationResponse(reply.text, reply.parsed)]

\* The handler ignoring the answer of checkRateLimit.
RateLimitResponseNever(limited) == NoResponse

\* The 429 of the handler when checkRateLimit answered true.
RateLimitResponse(limited) ==
    IF limited
    THEN createResponse(429, ErrorBody("Too Many Requests", "Rate limit exceeded. Please try again later."))
    ELSE NoResponse

\* checkRateLimit failing closed: limited when the read threw.
checkRateLimitResultFailClosed(readOk, item, t) ==
    IF readOk THEN IsRateLimited(item, t) ELSE TRUE

\* checkRateLimit's answer: the decision on the item read, false when the
\* read threw (the catch block).
checkRateLimitResult(readOk, item, t) ==
    IF readOk THEN IsRateLimited(item, t) ELSE FALSE

\* The handler's last step: the evaluation as a 200, a thrown error through
\* the catch block.
EvaluationResponse(reply) ==
    LET result == evaluateRequirement(reply)
    IN IF result.throws THEN ErrorResponse(result.error)
       ELSE createResponse(200, <<"evaluation", result.value>>)

\* ------------------------------------------------------------------ state
VARIABLES
    now,            \* the clock, in seconds (Math.floor(Date.now() / 1000))
    skip,           \* process.env.SKIP_RATE_LIMIT === 'true'
    table,          \* the DynamoDB table: key -> item
    started,        \* invocations started so far
    pc,             \* per container: where its invocation stands
    event,          \* per container: the event of its invocation
    clientIp,       \* per container: handler's clientIp
    tnow,           \* per container: the local now of the limiter call in progress
    seen,           \* per container: response.Item of checkRateLimit
    isRateLimited,  \* per container: handler's isRateLimited
    reply,          \* per container: what the Bedrock client answered
    response,       \* per container: the response returned
    trace,          \* per container: the calls made and their outcomes, in order
    recorded,       \* per key: the local now of every write the store accepted
    storeFailed,    \* whether a DynamoDB command has failed so far
    normIn,         \* the content of the last parseEvaluationResponse call
    normOut         \* what that call returned

vars == <<now, skip, table, started, pc, event, clientIp, tnow, seen,
          isRateLimited, reply, response, trace, recorded, storeFailed,
          normIn, normOut>>

NoEvent == Event("none", Body("absent", "object", Undefined), AbsentIp, <<>>)
NoReply == Reply("none", "", <<>>, Parsed(Category(Undefined, Undefined),
                                           Category(Undefined, Undefined),
                                           Category(Undefined, Undefined),
                                           Suggestions(FALSE, <<>>)))

\* What parseEvaluationResponse is called with: the text, and the object
\* that the first brace group of the text denotes where it denotes one.
\* called says whether the call has been made.
Content(text, parsed) == [called |-> FALSE, text |-> text, parsed |-> parsed]
NoContent == Content(<<>>, NoReply.parsed)

Init ==
    /\ now = 0
    /\ skip \in BOOLEAN
    /\ table = [k \in Keys |-> NoItem]
    /\ started = 0
    /\ pc = [c \in Containers |-> "idle"]
    /\ event = [c \in Containers |-> NoEvent]
    /\ clientIp = [c \in Containers |-> AbsentIp]
    /\ tnow = [c \in Containers |-> 0]
    /\ seen = [c \in Containers |-> NoItem]
    /\ isRateLimited = [c \in Containers |-> FALSE]
    /\ reply = [c \in Containers |-> NoReply]
    /\ response = [c \in Containers |-> NoResponse]
    /\ trace = [c \in Containers |-> <<>>]
    /\ recorded = [k \in Keys |-> <<>>]
    /\ storeFailed = FALSE
    /\ normIn = NoContent
    /\ normOut = getDefaultEvaluation

\* handler(event, context) up to its first await on the store: the OPTIONS
\* answer, the validation, getClientIp and the start of checkRateLimit,
\* which returns at once for a client the limiter skips.
HandlerEntry(c, e) ==
    /\ pc[c] \in {"idle", "done"}
    /\ started < MaxRequests
    /\ started' = started + 1
    /\ event' = [event EXCEPT ![c] = e]
    /\ seen' = [seen EXCEPT ![c] = NoItem]
    /\ isRateLimited' = [isRateLimited EXCEPT ![c] = FALSE]
    /\ reply' = [reply EXCEPT ![c] = NoReply]
    /\ IF ValidationResponse(e) # NoResponse
       THEN /\ pc' = [pc EXCEPT ![c] = "done"]
            /\ response' = [response EXCEPT ![c] = ValidationResponse(e)]
            /\ clientIp' = [clientIp EXCEPT ![c] = AbsentIp]
            /\ tnow' = [tnow EXCEPT ![c] = 0]
            /\ trace' = [trace EXCEPT ![c] = <<>>]
       ELSE /\ response' = [response EXCEPT ![c] = NoResponse]
            /\ clientIp' = [clientIp EXCEPT ![c] = getClientIp(e)]
            /\ IF SkipsRateLimit(getClientIp(e), skip)
               THEN /\ pc' = [pc EXCEPT ![c] = "checked"]
                    /\ tnow' = [tnow EXCEPT ![c] = 0]
                    /\ trace' = [trace EXCEPT ![c] = <<"check", "allowed">>]
               ELSE /\ pc' = [pc EXCEPT ![c] = "check_get"]
                    /\ tnow' = [tnow EXCEPT ![c] = now]
                    /\ trace' = [trace EXCEPT ![c] = <<"check">>]
    /\ UNCHANGED <<normIn, normOut, now, skip, table, recorded, storeFailed>>

\* CheckGet that starts a new window in the table when the one it reads
\* has expired.
CheckGetResetting(c, readOk) ==
    /\ pc[c] = "check_get"
    /\ pc' = [pc EXCEPT ![c] = "checked"]
    /\ seen' = [seen EXCEPT ![c] = IF readOk THEN table[clientIp[c]] ELSE NoItem]
    /\ isRateLimited' =
         [isRateLimited EXCEPT ![c] = checkRateLimitResult(readOk, table[clientIp[c]], tnow[c])]
    /\ trace' = [trace EXCEPT ![c] =
         @ \o <<IF readOk THEN "get" ELSE "getFail",
                IF checkRateLimitResult(readOk, table[clientIp[c]], tnow[c])
                THEN "limited" ELSE "allowed">>]
    /\ storeFailed' = (storeFailed \/ ~readOk)
    /\ table' = IF /\ readOk
                   /\ table[clientIp[c]].exists
                   /\ table[clientIp[c]].lastReset < tnow[c] - WINDOW_SIZE_SECONDS
                THEN [table EXCEPT ![clientIp[c]] =
                         Item(0, tnow[c], tnow[c] + WINDOW_SIZE_SECONDS * 2)]
                ELSE table
    /\ UNCHANGED <<normIn, normOut, now, skip, started, event, clientIp, tnow, reply, response, recorded>>

\* checkRateLimit after its GetItem: the command answers (readOk) or throws.
CheckGet(c, readOk) ==
    /\ pc[c] = "check_get"
    /\ pc' = [pc EXCEPT ![c] = "checked"]
    /\ seen' = [seen EXCEPT ![c] = IF readOk THEN table[clientIp[c]] ELSE NoItem]
    /\ isRateLimited' =
         [isRateLimited EXCEPT ![c] = checkRateLimitResult(readOk, table[clientIp[c]], tnow[c])]
    /\ trace' = [trace EXCEPT ![c] =
         @ \o <<IF readOk THEN "get" ELSE "getFail",
                IF checkRateLimitResult(readOk, table[clientIp[c]], tnow[c])
                THEN "limited" ELSE "allowed">>]
    /\ storeFailed' = (storeFailed \/ ~readOk)
    /\ UNCHANGED <<normIn, normOut, now, skip, table, started, event, clientIp, tnow, reply, response, recorded>>

\* AfterCheck that calls the model before it would record the request.
AfterCheckModelFirst(c) ==
    /\ pc[c] = "checked"
    /\ IF RateLimitResponse(isRateLimited[c]) # NoResponse
       THEN /\ pc' = [pc EXCEPT ![c] = "done"]
            /\ response' = [response EXCEPT ![c] = RateLimitResponse(isRateLimited[c])]
            /\ UNCHANGED trace
       ELSE /\ pc' = [pc EXCEPT ![c] = "model_send"]
            /\ trace' = [trace EXCEPT ![c] = @ \o <<"model">>]
            /\ UNCHANGED response
    /\ UNCHANGED <<normIn, normOut, now, skip, table, started, event, clientIp, tnow, seen,
                   isRateLimited, reply, recorded, storeFailed>>

\* AfterCheck that starts the identifier's window again when it answers 429.
AfterCheckExtending(c) ==
    /\ pc[c] = "checked"
    /\ IF RateLimitResponse(isRateLimited[c]) # NoResponse
       THEN /\ pc' = [pc EXCEPT ![c] = "done"]
            /\ response' = [response EXCEPT ![c] = RateLimitResponse(isRateLimited[c])]
            /\ table' = [table EXCEPT ![clientIp[c]] =
                            Item(@.requestCount, now, now + WINDOW_SIZE_SECONDS * 2)]
            /\ UNCHANGED <<tnow, trace>>
       ELSE /\ UNCHANGED <<response, table>>
            /\ IF SkipsRateLimit(clientIp[c], skip)
               THEN /\ pc' = [pc EXCEPT ![c] = "model_send"]
                    /\ trace' = [trace EXCEPT ![c] = @ \o <<"record", "recorded", "model">>]
                    /\ UNCHANGED tnow
               ELSE /\ pc' = [pc EXCEPT ![c] = "record_update"]
                    /\ tnow' = [tnow EXCEPT ![c] = now]
                    /\ trace' = [trace EXCEPT ![c] = @ \o <<"record">>]
    /\ UNCHANGED <<normIn, normOut, now, skip, started, event, clientIp, seen, isRateLimited,
                   reply, recorded, storeFailed>>

\* The handler after checkRateLimit: the 429, or recordRequest up to its
\* UpdateItem; recordRequest returns at once for a client the limiter skips
\* and the handler goes on to evaluateRequirement.
AfterCheck(c) ==
    /\ pc[c] = "checked"
    /\ IF RateLimitResponse(isRateLimited[c]) # NoResponse
       THEN /\ pc' = [pc EXCEPT ![c] = "done"]
            /\ response' = [response EXCEPT ![c] = RateLimitResponse(isRateLimited[c])]
            /\ UNCHANGED <<tnow, trace>>
       ELSE /\ UNCHANGED response
            /\ IF SkipsRateLimit(clientIp[c], skip)
               THEN /\ pc' = [pc EXCEPT ![c] = "model_send"]
                    /\ trace' = [trace EXCEPT ![c] = @ \o <<"record", "recorded", "model">>]
                    /\ UNCHANGED tnow
               ELSE /\ pc' = [pc EXCEPT ![c] = "record_update"]
                    /\ tnow' = [tnow EXCEPT ![c] = now]
                    /\ trace' = [trace EXCEPT ![c] = @ \o <<"record">>]
    /\ UNCHANGED <<normIn, normOut, now, skip, table, started, event, clientIp, seen, isRateLimited,
                   reply, recorded, storeFailed>>

\* recordRequest after its UpdateItem: the store applies the update when the
\* condition holds on the item it has, rejects it otherwise
\* (ConditionalCheckFailedException, upon which resetRateLimitCounter
\* starts), or the command fails (writeOk false) and the error is logged.
RecordUpdate(c, writeOk) ==
    /\ pc[c] = "record_update"
    /\ IF ~writeOk
       THEN /\ pc' = [pc EXCEPT ![c] = "model_send"]
            /\ trace' = [trace EXCEPT ![c] = @ \o <<"updateFail", "recorded", "model">>]
            /\ UNCHANGED <<table, tnow, recorded>>
       ELSE IF ConditionHolds(table[clientIp[c]], tnow[c])
       THEN /\ table' = [table EXCEPT ![clientIp[c]] = IncrementedItem(@, tnow[c])]
            /\ recorded' = [recorded EXCEPT ![clientIp[c]] = Append(@, tnow[c])]
            /\ pc' = [pc EXCEPT ![c] = "model_send"]
            /\ trace' = [trace EXCEPT ![c] = @ \o <<"update", "recorded", "model">>]
            /\ UNCHANGED tnow
       ELSE /\ pc' = [pc EXCEPT ![c] = "reset_update"]
            /\ tnow' = [tnow EXCEPT ![c] = now]
            /\ trace' = [trace EXCEPT ![c] = @ \o <<"updateRejected", "reset">>]
            /\ UNCHANGED <<table, recorded>>
    /\ storeFailed' = (storeFailed \/ ~writeOk)
    /\ UNCHANGED <<normIn, normOut, now, skip, started, event, clientIp, seen, isRateLimited, reply, response>>

\* resetRateLimitCounter after its UpdateItem, then the return of
\* recordRequest into the handler.
ResetUpdate(c, writeOk) ==
    /\ pc[c] = "reset_update"
    /\ pc' = [pc EXCEPT ![c] = "model_send"]
    /\ IF writeOk
       THEN /\ table' = [table EXCEPT ![clientIp[c]] = ResetItem(tnow[c])]
            /\ recorded' = [recorded EXCEPT ![clientIp[c]] = Append(@, tnow[c])]
            /\ trace' = [trace EXCEPT ![c] = @ \o <<"resetPut", "recorded", "model">>]
       ELSE /\ trace' = [trace EXCEPT ![c] = @ \o <<"resetFail", "recorded", "model">>]
            /\ UNCHANGED <<table, recorded>>
    /\ storeFailed' = (storeFailed \/ ~writeOk)
    /\ UNCHANGED <<normIn, normOut, now, skip, started, event, clientIp, tnow, seen, isRateLimited, reply, response>>

\* evaluateRequirement after the Bedrock client has answered, and the
\* handler's return.
\* ModelReply that sends the command once more when the send fails.
ModelReplyRetrying(c, r) ==
    /\ pc[c] = "model_send"
    /\ IF r.kind = "sendError" /\ Len(SelectSeq(trace[c], LAMBDA x : x = "model")) < 2
       THEN /\ trace' = [trace EXCEPT ![c] = @ \o <<"model">>]
            /\ UNCHANGED <<pc, reply, response>>
       ELSE /\ pc' = [pc EXCEPT ![c] = "done"]
            /\ reply' = [reply EXCEPT ![c] = r]
            /\ response' = [response EXCEPT ![c] = EvaluationResponse(r)]
            /\ trace' = [trace EXCEPT ![c] = @ \o <<"reply">>]
    /\ UNCHANGED <<normIn, normOut, now, skip, table, started, event, clientIp, tnow, seen,
                   isRateLimited, recorded, storeFailed>>

ModelReply(c, r) ==
    /\ pc[c] = "model_send"
    /\ pc' = [pc EXCEPT ![c] = "done"]
    /\ reply' = [reply EXCEPT ![c] = r]
    /\ response' = [response EXCEPT ![c] = EvaluationResponse(r)]
    /\ trace' = [trace EXCEPT ![c] = @ \o <<"reply">>]
    /\ UNCHANGED <<normIn, normOut, now, skip, table, started, event, clientIp, tnow, seen, isRateLimited,
                   recorded, storeFailed>>

\* A second passes.
Tick ==
    /\ now < MaxTime
    /\ now' = now + 1
    /\ UNCHANGED <<normIn, normOut, skip, table, started, pc, event, clientIp, tnow, seen, isRateLimited,
                   reply, response, trace, recorded, storeFailed>>

\* parseEvaluationResponse(content), called on its own with the content
\* the behaviour starts with.
Normalize ==
    /\ ~normIn.called
    /\ normIn' = [normIn EXCEPT !.called = TRUE]
    /\ normOut' = parseEvaluationResponse(normIn.text, normIn.parsed)
    /\ UNCHANGED <<now, skip, table, started, pc, event, clientIp, tnow, seen, isRateLimited,
                   reply, response, trace, recorded, storeFailed>>

\* ----------------------------------------------------------------- inputs
\* Where the client address of an event comes from: the request context,
\* the X-Forwarded-For chain (first entry, trimmed), or nowhere.
Sources ==
    {[sourceIp |-> "ip1", xff |-> <<>>],
     [sourceIp |-> "ip1", xff |-> <<XffEntry(0, UnknownIp, 0)>>],
     [sourceIp |-> AbsentIp, xff |-> <<XffEntry(MaxPad, "ip2", 0), XffEntry(1, "ip1", 0)>>],
     [sourceIp |-> AbsentIp, xff |-> <<>>]}

\* The valid requirement that each run sends from every source.
ValidBody == Body("json", "object", Str(0, "req", MinLength, 0))
ValidEvents == {Event("POST", ValidBody, s.sourceIp, s.xff) : s \in Sources}

\* Every body as a POST from one address, and the preflight.
Events ==
    {Event("POST", b, "ip1", <<>>) : b \in Bodies}
        \cup {Event("OPTIONS", b, "ip1", <<>>) :
                 b \in {Body("absent", "object", Undefined), Body("invalid", "object", Undefined),
                        ValidBody}}

\* The objects a reply text may denote: the evaluation of the handler's
\* test, an object without any of the properties, and an object whose
\* properties need normalising.
ParsedObjects ==
    {Parsed(Category(Num(80), Str(0, "Clear requirement", 17, 0)),
            Category(Num(70), Str(0, "Can be tested", 13, 0)),
            Category(Num(90), Str(0, "Complete specification", 22, 0)),
            Suggestions(TRUE, <<Str(0, "Add acceptance criteria", 23, 0)>>)),
     Parsed(Category(Undefined, Undefined), Category(Undefined, Undefined),
            Category(Undefined, Undefined), Suggestions(FALSE, <<>>)),
     Parsed(Category(Num(75), Str(1, "Vague", 5, 1)),
            Category(Str(0, "high", 4, 0), Null),
            Category(Num(-25), Str(0, "", 0, 0)),
            Suggestions(TRUE, <<Str(1, "a", 1, 0), Num(10), Str(1, "", 0, 0), Str(0, "b", 1, 0)>>))}

FailedReplies ==
    {Reply("sendError", "TimeoutError", <<>>, NoReply.parsed),
     Reply("sendError", "ThrottlingException", <<>>, NoReply.parsed),
     Reply("badEnvelope", "", <<>>, NoReply.parsed),
     Reply("noContent", "", <<>>, NoReply.parsed),
     Reply("nonString", "", <<>>, NoReply.parsed)}
\* The object a text denotes matters only when the text matched parses.
TextReplies ==
    {Reply("text", "", t, p) : t \in {x \in Texts : JsonParses(jsonMatch(x))}, p \in ParsedObjects}
        \cup {Reply("text", "", t, NoReply.parsed) : t \in {x \in Texts : ~JsonParses(jsonMatch(x))}}
Replies == FailedReplies \cup TextReplies

\* A few replies of each kind, for the runs that vary the requests.
FewReplies ==
    {Reply("sendError", "TimeoutError", <<>>, NoReply.parsed),
     Reply("text", "", <<"{", "v", "}">>, NoReply.parsed)}

\* The scores and feedbacks a category of the parsed object may carry.
ScoreValues ==
    {Undefined, Null, Bool(TRUE), Str(0, "high", 4, 0), Obj,
     Num(-25), Num(-15), Num(-5), Num(-4), Num(0), Num(4), Num(5), Num(14), Num(15),
     Num(75), Num(100), Num(104), Num(105), Num(1000)}
FeedbackValues ==
    {Undefined, Null, Num(10), Bool(TRUE), Obj, Str(0, "", 0, 0), Str(MaxPad, "", 0, 0),
     Str(0, "Clear", 5, 0), Str(MaxPad, "Clear", 5, MaxPad)}
BaseCategory == Category(Num(80), Str(0, "Clear", 5, 0))
CategoryValues ==
    {Category(sc, Str(0, "Clear", 5, 0)) : sc \in ScoreValues}
        \cup {Category(Num(80), f) : f \in FeedbackValues}

\* The suggestions the parsed object may carry: every short list of valid
\* and invalid entries, and every run of a long list with more than
\* MAX_SUGGESTIONS valid entries.
SuggestionItems ==
    {Str(0, "a", 1, 0), Str(MaxPad, "b", 1, MaxPad), Str(MaxPad, "", 0, 0), Num(10)}
LongSuggestions ==
    <<Str(0, "s1", 2, 0), Str(MaxPad, "", 0, 0), Str(MaxPad, "s2", 2, 0), Null,
      Str(0, "s3", 2, 0), Str(0, "s4", 2, MaxPad), Str(0, "s5", 2, 0), Str(0, "", 0, 0),
      Str(0, "s6", 2, 0), Str(0, "s7", 2, 0)>>
SuggestionLists ==
    UNION {[1..n -> SuggestionItems] : n \in 0..MaxSuggestionLen}
        \cup {SubSeq(LongSuggestions, i, j) : i \in 1..Len(LongSuggestions),
                                             j \in 1..Len(LongSuggestions)}
SuggestionValues ==
    {Suggestions(FALSE, <<>>)} \cup {Suggestions(TRUE, l) : l \in SuggestionLists}

\* The parsed objects that vary one property at a time.
NormalizeObjects ==
    {Parsed(c, BaseCategory, BaseCategory, Suggestions(TRUE, <<>>)) : c \in CategoryValues}
        \cup {Parsed(BaseCategory, c, BaseCategory, Suggestions(TRUE, <<>>)) : c \in CategoryValues}
        \cup {Parsed(BaseCategory, BaseCategory, c, Suggestions(TRUE, <<>>)) : c \in CategoryValues}
        \cup {Parsed(BaseCategory, BaseCategory, BaseCategory, sg) : sg \in SuggestionValues}
        \cup ParsedObjects

\* Evaluation objects as the service returns them, well-formed and not:
\* scores in and out of range, feedback plain, holding braces and padded,
\* and up to MAX_SUGGESTIONS + 1 suggestions.
WithBraces == "Define {unit}."
Evaluation(ambiguity, testability, completeness, suggestions) ==
    [ambiguity |-> ambiguity, testability |-> testability,
     completeness |-> completeness, suggestions |-> suggestions]
EvaluationObjects ==
    {Evaluation([score |-> sc, feedback |-> f],
                [score |-> 7, feedback |-> Text("Can be tested", 13)],
                [score |-> 10, feedback |-> f],
                sg) :
        sc \in {1, 7, 10, 11},
        f \in {Text("Clear requirement", 17), Text(WithBraces, 14), Str(MaxPad, "Padded", 6, 0)},
        sg \in {<<>>,
                <<Text("Add acceptance criteria", 23)>>,
                <<Text("s1", 2), Text("s2", 2), Text(WithBraces, 14), Text("s4", 2), Text("s5", 2)>>,
                <<Text("s1", 2), Text("s2", 2), Text("s3", 2), Text("s4", 2), Text("s5", 2),
                  Text("s6", 2)>>}}

\* JSON.stringify of an evaluation object: the text, and the object that
\* JSON.parse makes of that text.
HasBraces(str) == str.core = WithBraces
stringifyCategory(category) ==
    <<"{", "v", IF HasBraces(category.feedback) THEN "b" ELSE "v", "}">>
stringifyText(evaluation) ==
    <<"{">> \o stringifyCategory(evaluation.ambiguity)
        \o stringifyCategory(evaluation.testability)
        \o stringifyCategory(evaluation.completeness)
        \o <<IF \E i \in 1..Len(evaluation.suggestions) : HasBraces(evaluation.suggestions[i])
             THEN "b" ELSE "v">>
        \o <<"}">>
stringifyParsed(evaluation) ==
    Parsed(Category(Num(10 * evaluation.ambiguity.score), evaluation.ambiguity.feedback),
           Category(Num(10 * evaluation.testability.score), evaluation.testability.feedback),
           Category(Num(10 * evaluation.completeness.score), evaluation.completeness.feedback),
           Suggestions(TRUE, evaluation.suggestions))

\* The commentary a model may put before and after the object.
Comments == UNION {[1..n -> {"w", "{", "}", "b"}] : n \in 0..MaxComment}

\* What parseEvaluationResponse is called with: every short text, one text
\* with every parsed object, and every serialized evaluation object between
\* every two pieces of commentary.
NormalizeContents ==
    {Content(r.text, r.parsed) : r \in TextReplies}
        \cup {Content(<<"{", "v", "}">>, p) : p \in NormalizeObjects}
        \cup {Content(pre \o stringifyText(ev) \o post, stringifyParsed(ev)) :
                 pre \in Comments, post \in Comments, ev \in EvaluationObjects}

\* --------------------------------------------------------- specifications
\* One step of the system: the containers of Cs take invocations whose
\* events come from Es, the Bedrock client answers with replies of Rs, and
\* the DynamoDB commands end as Oks says (TRUE: answered, FALSE: failed).
NextOver(Cs, Es, Rs, Oks) ==
    \/ \E c \in Cs, e \in Es : HandlerEntry(c, e)
    \/ \E c \in Cs, readOk \in Oks : CheckGet(c, readOk)
    \/ \E c \in Cs : AfterCheck(c)
    \/ \E c \in Cs, writeOk \in Oks : RecordUpdate(c, writeOk)
    \/ \E c \in Cs, writeOk \in Oks : ResetUpdate(c, writeOk)
    \/ \E c \in Cs, r \in Rs : ModelReply(c, r)
    \/ Tick

\* One container, handling its invocations one at a time: every request.
Next == NextOver({1}, Events, FewReplies, BOOLEAN)
Spec == Init /\ [][Next]_vars

\* The steps after the entry: the awaited calls of the store and of the
\* model settle, and the handler goes on from each.
ContinueOver(Cs, Rs, Oks) ==
    \/ \E c \in Cs, readOk \in Oks : CheckGet(c, readOk)
    \/ \E c \in Cs : AfterCheck(c)
    \/ \E c \in Cs, writeOk \in Oks : RecordUpdate(c, writeOk)
    \/ \E c \in Cs, writeOk \in Oks : ResetUpdate(c, writeOk)
    \/ \E c \in Cs, r \in Rs : ModelReply(c, r)
Continue == ContinueOver({1}, FewReplies, BOOLEAN)
\* One container, an event for each way through the handler (the
\* preflight, the body that is no JSON, the body null, the body without a
\* requirement, the valid requirement), the store and the model answering
\* or failing, each awaited call settling in the end.
SettlingEvents ==
    {Event("OPTIONS", Body("invalid", "object", Undefined), "ip1", <<>>),
     Event("POST", Body("invalid", "object", Undefined), "ip1", <<>>),
     Event("POST", Body("json", "null", Undefined), "ip1", <<>>),
     Event("POST", Body("absent", "object", Undefined), "ip1", <<>>),
     Event("POST", ValidBody, "ip1", <<>>)}
NextSettling == NextOver({1}, SettlingEvents, FewReplies, BOOLEAN)
SpecSettling == Init /\ [][NextSettling]_vars /\ WF_vars(Continue)

\* One container, the valid requirement from every source: the limiter.
NextLimiter == NextOver({1}, ValidEvents, FewReplies, BOOLEAN)
SpecLimiter == Init /\ [][NextLimiter]_vars

\* One container, the valid requirement from one address, the store
\* available: every reply.
ModelEvents == {Event("POST", ValidBody, "ip1", <<>>)}
NextModel == NextOver({1}, ModelEvents, Replies, {TRUE})
SpecModel == Init /\ [][NextModel]_vars

\* One container, the store available, the valid requirement from every
\* source and from a client that sends the sentinel as its forwarded
\* address.
SentinelSources ==
    {[sourceIp |-> AbsentIp, xff |-> <<XffEntry(MaxPad, UnknownIp, 0), XffEntry(1, "ip1", 0)>>]}
SourceEvents ==
    ValidEvents \cup {Event("POST", ValidBody, s.sourceIp, s.xff) : s \in SentinelSources}
NextSources == NextOver({1}, SourceEvents, FewReplies, {TRUE})
SpecSources == Init /\ [][NextSources]_vars

\* Two containers, the valid requirement from one address, the store
\* available: the requests of one identifier in flight at the same time.
Racers == {1, 2}
\* The table holds the record of one earlier request of that address.
InitRace ==
    /\ now = 0
    /\ skip = FALSE
    /\ table = [k \in Keys |-> IF k = "ip1" THEN IncrementedItem(NoItem, 0) ELSE NoItem]
    /\ started = 0
    /\ pc = [c \in Containers |-> "idle"]
    /\ event = [c \in Containers |-> NoEvent]
    /\ clientIp = [c \in Containers |-> AbsentIp]
    /\ tnow = [c \in Containers |-> 0]
    /\ seen = [c \in Containers |-> NoItem]
    /\ isRateLimited = [c \in Containers |-> FALSE]
    /\ reply = [c \in Containers |-> NoReply]
    /\ response = [c \in Containers |-> NoResponse]
    /\ trace = [c \in Containers |-> <<>>]
    /\ recorded = [k \in Keys |-> IF k = "ip1" THEN <<0>> ELSE <<>>]
    /\ storeFailed = FALSE
    /\ normIn = NoContent
    /\ normOut = getDefaultEvaluation
NextRace == NextOver(Racers, ModelEvents, FewReplies, {TRUE})
SpecRace == InitRace /\ [][NextRace]_vars

\* The same, with the clock never stopping while it can advance.
SpecRaceLive == SpecRace /\ WF_vars(Tick)

\* parseEvaluationResponse on its own, over every content.
InitNormalize ==
    /\ now = 0
    /\ skip = FALSE
    /\ table = [k \in Keys |-> NoItem]
    /\ started = 0
    /\ pc = [c \in Containers |-> "idle"]
    /\ event = [c \in Containers |-> NoEvent]
    /\ clientIp = [c \in Containers |-> AbsentIp]
    /\ tnow = [c \in Containers |-> 0]
    /\ seen = [c \in Containers |-> NoItem]
    /\ isRateLimited = [c \in Containers |-> FALSE]
    /\ reply = [c \in Containers |-> NoReply]
    /\ response = [c \in Containers |-> NoResponse]
    /\ trace = [c \in Containers |-> <<>>]
    /\ recorded = [k \in Keys |-> <<>>]
    /\ storeFailed = FALSE
    /\ normIn \in NormalizeContents
    /\ normOut = getDefaultEvaluation
NextNormalize == Normalize
SpecNormalize == InitNormalize /\ [][NextNormalize]_vars

\* ----------------------------------------------------------------- claims
InTrace(c, x) == \E i \in 1..Len(trace[c]) : trace[c][i] = x
StoreOps == {"get", "getFail", "update", "updateFail", "updateRejected", "resetPut", "resetFail"}
StoreFailures == {"getFail", "updateFail", "resetFail"}
NoLimiterNoModel(c) == trace[c] = <<>>

\* C1: a POST whose requirement is a string of trimmed length below
\* MinLength or above MaxLength is answered 400, with no rate-limit check,
\* no recording and no model call.
C1_LengthRejected ==
    \A c \in Containers :
        LET b == event[c].body IN
        (/\ pc[c] # "idle"
         /\ event[c].httpMethod = "POST"
         /\ b.kind = "json" /\ b.top = "object" /\ b.requirement.t = "string"
         /\ (b.requirement.len < MinLength \/ b.requirement.len > MaxLength))
        => (pc[c] = "done" /\ response[c].statusCode = 400 /\ NoLimiterNoModel(c))

\* A requirement too short only once trimmed has been answered 400.
C1_Witness ==
    \E c \in Containers :
        /\ pc[c] = "done" /\ event[c].httpMethod = "POST"
        /\ event[c].body.requirement.t = "string"
        /\ event[c].body.requirement.len = MinLength - 1
        /\ Length(event[c].body.requirement) >= MinLength
        /\ response[c].statusCode = 400

\* The writes the store accepted for key k since the start of its window.
RecordedInWindow(k) ==
    Cardinality({i \in 1..Len(recorded[k]) : recorded[k][i] >= table[k].lastReset})

\* C2: with the store never failing and the requests handled one at a time,
\* once MAX_REQUESTS_PER_WINDOW requests of an identifier the limiter does
\* not skip have been recorded in its window, a check made less than
\* WINDOW_SIZE_SECONDS after the window's start answers limited, and the
\* handler answers 429.
C2_LimitedAfterQuota ==
    \A c \in Containers :
        (/\ pc[c] \in {"checked", "done"}
         /\ InTrace(c, "get")
         /\ ~InTrace(c, "record")
         /\ ~storeFailed
         /\ ~skip /\ clientIp[c] # UnknownIp
         /\ table[clientIp[c]].exists
         /\ tnow[c] - table[clientIp[c]].lastReset < WINDOW_SIZE_SECONDS
         /\ RecordedInWindow(clientIp[c]) >= MAX_REQUESTS_PER_WINDOW)
        => /\ isRateLimited[c]
           /\ pc[c] = "done" => response[c].statusCode = 429

\* The request after the quota of its window was used up has been answered 429.
C2_Witness ==
    \E c \in Containers :
        /\ pc[c] = "done" /\ response[c].statusCode = 429
        /\ ~storeFailed
        /\ RecordedInWindow(clientIp[c]) = MAX_REQUESTS_PER_WINDOW
        /\ tnow[c] - table[clientIp[c]].lastReset < WINDOW_SIZE_SECONDS

\* C3: for a record at the limit, a check at a clock value now with
\* now - windowStart >= WINDOW_SIZE_SECONDS, equality included, answers
\* allowed, and the recordRequest that follows leaves the record with
\* count 1 and windowStart now.
C3_AllowedFromBoundary ==
    \A c \in Containers :
        /\ (/\ pc[c] = "checked"
            /\ InTrace(c, "get")
            /\ seen[c].exists
            /\ seen[c].requestCount >= MAX_REQUESTS_PER_WINDOW
            /\ tnow[c] - seen[c].lastReset >= WINDOW_SIZE_SECONDS)
           => ~isRateLimited[c]
        /\ (/\ pc[c] = "model_send"
            /\ ~storeFailed
            /\ seen[c].exists
            /\ seen[c].requestCount >= MAX_REQUESTS_PER_WINDOW)
           => /\ table[clientIp[c]].requestCount = 1
              /\ table[clientIp[c]].lastReset = tnow[c]

\* The entry that step c has just added to its trace, "" when none.
Added(c) ==
    IF Len(trace'[c]) > Len(trace[c]) /\ SubSeq(trace'[c], 1, Len(trace[c])) = trace[c]
    THEN trace'[c][Len(trace[c]) + 1]
    ELSE ""

\* C4: a failed read makes checkRateLimit answer allowed; a failed write of
\* recordRequest or resetRateLimitCounter changes nothing in the store and
\* the handler goes on to the model; a request that met a store failure is
\* never answered 429, and 500 only when the model call failed.
C4_StoreFailureState ==
    \A c \in Containers :
        (\E x \in StoreFailures : InTrace(c, x)) =>
            /\ InTrace(c, "getFail") => ~isRateLimited[c]
            /\ pc[c] = "done" =>
                 /\ InTrace(c, "model")
                 /\ response[c].statusCode \in {200, 500}
                 /\ response[c].statusCode = 500 => (reply[c].kind # "text" \/ reply[c].text = <<>>)
C4_StoreFailureStep ==
    \A c \in Containers :
        /\ Added(c) = "getFail" => (table' = table /\ ~isRateLimited'[c] /\ pc'[c] = "checked")
        /\ Added(c) \in {"updateFail", "resetFail"} => (table' = table /\ pc'[c] = "model_send")
C4_FailOpen == [][C4_StoreFailureStep]_vars /\ []C4_StoreFailureState

\* A request whose read and whose write both failed has been answered 200.
C4_Witness ==
    \E c \in Containers :
        /\ pc[c] = "done" /\ response[c].statusCode = 200
        /\ InTrace(c, "getFail") /\ InTrace(c, "updateFail")

\* C5: for the identifier "unknown", and for every identifier when
\* SKIP_RATE_LIMIT is set, checkRateLimit answers allowed, and no step of
\* the request reads or writes the table: every item is left as it was.
C5_BypassState ==
    \A c \in Containers :
        (pc[c] # "idle" /\ trace[c] # <<>> /\ (skip \/ clientIp[c] = UnknownIp)) =>
            /\ ~isRateLimited[c]
            /\ \A x \in StoreOps : ~InTrace(c, x)
C5_BypassStep ==
    \A c \in Containers :
        (pc'[c] # pc[c] /\ trace'[c] # <<>> /\ (skip \/ clientIp'[c] = UnknownIp)) => table' = table
C5_BypassLeavesStore == [][C5_BypassStep]_vars /\ []C5_BypassState

\* A request of the identifier "unknown" has been answered 200 without the
\* flag, while the table holds an item.
C5_Witness ==
    \E c \in Containers :
        /\ pc[c] = "done" /\ response[c].statusCode = 200
        /\ ~skip /\ clientIp[c] = UnknownIp
        /\ InTrace(c, "check") /\ InTrace(c, "record")
        /\ \E k \in Keys : table[k].exists

\* x occurs in the trace of c only after y.
Follows(c, x, y) ==
    \A i \in 1..Len(trace[c]) : trace[c][i] = x => \E j \in 1..(i - 1) : trace[c][j] = y

\* C6: within one request recordRequest is called only after checkRateLimit
\* answered allowed, the model only after recordRequest has returned, and a
\* request whose check answered limited ends with 429, with no record and
\* no model call; the check itself comes only after validation has passed.
C6_StepOrder ==
    \A c \in Containers :
        /\ trace[c] # <<>> => (trace[c][1] = "check" /\ ValidationResponse(event[c]) = NoResponse)
        /\ Follows(c, "allowed", "check") /\ Follows(c, "limited", "check")
        /\ Follows(c, "record", "allowed")
        /\ Follows(c, "recorded", "record")
        /\ Follows(c, "model", "recorded")
        /\ Follows(c, "reply", "model")
        /\ InTrace(c, "limited") =>
             /\ ~InTrace(c, "record") /\ ~InTrace(c, "model")
             /\ pc[c] \in {"checked", "done"}
             /\ pc[c] = "done" => response[c].statusCode = 429

\* A request has gone through the check, the record and the model call.
C6_Witness ==
    \E c \in Containers :
        /\ pc[c] = "done"
        /\ trace[c] = <<"check", "get", "allowed", "record", "update", "recorded", "model", "reply">>

\* C7: a POST whose body parses but has no requirement, or a requirement
\* that is not a string, is answered 400, with no rate-limit check, no
\* recording and no model call.
C7_NonStringRejected ==
    \A c \in Containers :
        LET b == event[c].body IN
        (/\ pc[c] # "idle"
         /\ event[c].httpMethod = "POST"
         /\ \/ b.kind \in {"absent", "empty"}
            \/ b.kind = "json" /\ b.top = "object" /\ b.requirement.t # "string")
        => (pc[c] = "done" /\ response[c].statusCode = 400 /\ NoLimiterNoModel(c))

\* C8: a POST whose body is not JSON is answered 400, with no rate-limit
\* check, no recording and no model call.
C8_InvalidJsonRejected ==
    \A c \in Containers :
        (pc[c] # "idle" /\ event[c].httpMethod = "POST" /\ event[c].body.kind = "invalid")
        => (pc[c] = "done" /\ response[c].statusCode = 400 /\ NoLimiterNoModel(c))

\* A body that is not JSON has been answered 400 with the message of the
\* ValidationError.
C8_Witness ==
    \E c \in Containers :
        /\ pc[c] = "done" /\ event[c].httpMethod = "POST" /\ event[c].body.kind = "invalid"
        /\ response[c] = createResponse(400, <<"error", "Bad Request", "Invalid JSON in request body">>)

\* C9: a request whose model call was rejected (failure or timeout) is
\* answered 500 with the fixed body, whatever the error, and never with an
\* evaluation.
C9_ModelFailureGeneric ==
    \A c \in Containers :
        (pc[c] = "done" /\ reply[c].kind = "sendError") =>
            /\ response[c].statusCode = 500
            /\ response[c].body =
                 <<"error", "Internal Server Error", "An error occurred while processing your request">>

\* A model call that was throttled has been answered 500.
C9_Witness ==
    \E c \in Containers :
        /\ pc[c] = "done" /\ reply[c].kind = "sendError" /\ reply[c].err = "ThrottlingException"
        /\ InTrace(c, "model")
        /\ response[c].statusCode = 500

\* No part of the text is an object JSON.parse accepts.
Unparsable(text) ==
    \A i \in 1..Len(text) : \A j \in i..Len(text) : ~JsonParses(SubSeq(text, i, j))
IsFallback(resp) ==
    /\ resp.statusCode = 200
    /\ resp.body[1] = "evaluation"
    /\ resp.body[2].ambiguity.score = 5
    /\ resp.body[2].testability.score = 5
    /\ resp.body[2].completeness.score = 5
    /\ resp.body[2].ambiguity.feedback.core = "Unable to fully evaluate ambiguity. Please try again."
    /\ resp.body[2].testability.feedback.core = "Unable to fully evaluate testability. Please try again."
    /\ resp.body[2].completeness.feedback.core = "Unable to fully evaluate completeness. Please try again."
    /\ Len(resp.body[2].suggestions) = 1
    /\ resp.body[2].suggestions[1].core = "Please try submitting your requirement again."

\* C10 as stated: a reply whose text cannot be parsed (no JSON object,
\* malformed JSON, or empty text) is answered 200 with the default fallback
\* result.
C10_UnparsableIsFallback ==
    \A c \in Containers :
        (pc[c] = "done" /\ reply[c].kind = "text" /\ Unparsable(reply[c].text))
        => IsFallback(response[c])

\* C10 as amended: a reply whose text is not empty and cannot be parsed (no
\* JSON object, or malformed JSON) is answered 200 with the default fallback
\* result; a reply whose text is empty is answered with the generic 500.
C10_NonEmptyUnparsableIsFallback ==
    \A c \in Containers :
        (pc[c] = "done" /\ reply[c].kind = "text" /\ Unparsable(reply[c].text)) =>
            IF reply[c].text # <<>>
            THEN IsFallback(response[c])
            ELSE /\ response[c].statusCode = 500
                 /\ response[c].body =
                      <<"error", "Internal Server Error", "An error occurred while processing your request">>

\* A reply with braces that is not JSON has been answered 200.
C10_Witness ==
    \E c \in Containers :
        /\ pc[c] = "done" /\ reply[c].kind = "text"
        /\ reply[c].text = <<"{", "w", "}">>
        /\ response[c].statusCode = 200

\* ------------------------------------------- claims on the normalizer
CategoryNames == {"ambiguity", "testability", "completeness"}
Parses(content) == JsonParses(jsonMatch(content.text))

\* C11: whatever the text, parseEvaluationResponse returns a result with
\* the three categories and the suggestions, each score an integer of
\* 1..10, each feedback a string, and the suggestions at most 5 strings.
C11_NormalizeTotal ==
    normIn.called =>
        /\ DOMAIN normOut = CategoryNames \cup {"suggestions"}
        /\ \A name \in CategoryNames :
              /\ normOut[name].score \in 1..10
              /\ normOut[name].feedback.t = "string"
        /\ Len(normOut.suggestions) <= 5
        /\ \A i \in 1..Len(normOut.suggestions) : normOut.suggestions[i].t = "string"

\* A parsed score of 100 came out as 10.
C11_Witness ==
    /\ normIn.called
    /\ Parses(normIn)
    /\ normIn.parsed.testability.score = Num(1000)
    /\ normOut.testability.score = 10

UnableToEvaluate(name) ==
    CASE name = "ambiguity" -> "Unable to evaluate ambiguity."
      [] name = "testability" -> "Unable to evaluate testability."
      [] OTHER -> "Unable to evaluate completeness."

\* C12: every feedback parseEvaluationResponse returns is a non-empty
\* string: a parsed feedback that is absent, not a string or empty once
\* trimmed is replaced by 'Unable to evaluate <category>.', and any other
\* feedback is returned trimmed.
C12_FeedbackNonEmpty ==
    normIn.called =>
        \A name \in CategoryNames :
            /\ normOut[name].feedback.t = "string"
            /\ Length(normOut[name].feedback) > 0
            /\ Parses(normIn) =>
                  LET feedback == normIn.parsed[name].feedback
                  IN IF feedback.t # "string" \/ Length(Trim(feedback)) = 0
                     THEN normOut[name].feedback.core = UnableToEvaluate(name)
                     ELSE normOut[name].feedback = Trim(feedback)

\* The text has no opening brace character with a closing one after it.
NoBraceGroup(text) ==
    ~\E i \in 1..Len(text) : \E j \in i..Len(text) :
        /\ text[i] \in {"{", "b"}
        /\ text[j] \in {"}", "b"}
        /\ (i < j \/ text[i] = "b")
IsDefaultEvaluation(evaluation) ==
    evaluation =
        [ambiguity |-> [score |-> 5,
                        feedback |-> Str(0, "Unable to fully evaluate ambiguity. Please try again.", 53, 0)],
         testability |-> [score |-> 5,
                          feedback |-> Str(0, "Unable to fully evaluate testability. Please try again.", 55, 0)],
         completeness |-> [score |-> 5,
                           feedback |-> Str(0, "Unable to fully evaluate completeness. Please try again.", 56, 0)],
         suggestions |-> <<Str(0, "Please try submitting your requirement again.", 45, 0)>>]

\* C13: for a text without a '{...}' substring, or whose extracted
\* substring is not JSON, parseEvaluationResponse returns exactly the
\* default: score 5 and the 'unable to fully evaluate' feedback for each
\* category, and the one retry suggestion.
C13_UnparsedIsDefault ==
    (normIn.called /\ (NoBraceGroup(normIn.text) \/ ~JsonParses(jsonMatch(normIn.text))))
        => IsDefaultEvaluation(normOut)

\* A text with a brace group whose extracted part is not JSON got the
\* default.
C13_Witness ==
    /\ normIn.called
    /\ normIn.text = <<"{", "}", "}">>
    /\ ~NoBraceGroup(normIn.text)
    /\ IsDefaultEvaluation(normOut)

\* A well-formed evaluation object as JSON.parse returns it: integer scores
\* of 1..10, feedback non-empty and trimmed, and a list of at most 5
\* non-empty trimmed strings.
IsTrimmedText(str) == str.t = "string" /\ str.lead = 0 /\ str.trail = 0 /\ str.len > 0
WellFormedParsed(parsed) ==
    /\ \A name \in CategoryNames :
          /\ parsed[name].score.t = "number"
          /\ parsed[name].score.n % 10 = 0
          /\ parsed[name].score.n \div 10 \in 1..10
          /\ IsTrimmedText(parsed[name].feedback)
    /\ parsed.suggestions.isArray
    /\ Len(parsed.suggestions.items) <= 5
    /\ \A i \in 1..Len(parsed.suggestions.items) : IsTrimmedText(parsed.suggestions.items[i])
\* The evaluation object that a well-formed parsed object is.
AsEvaluation(parsed) ==
    [ambiguity |-> [score |-> parsed.ambiguity.score.n \div 10,
                    feedback |-> parsed.ambiguity.feedback],
     testability |-> [score |-> parsed.testability.score.n \div 10,
                      feedback |-> parsed.testability.feedback],
     completeness |-> [score |-> parsed.completeness.score.n \div 10,
                       feedback |-> parsed.completeness.feedback],
     suggestions |-> parsed.suggestions.items]
\* The text is the JSON text of a well-formed evaluation object from token
\* i on, with commentary before and after it.
ObjectAt(content, i) ==
    LET object == stringifyText(AsEvaluation(content.parsed))
        last == i + Len(object) - 1
    IN /\ WellFormedParsed(content.parsed)
       /\ last <= Len(content.text)
       /\ SubSeq(content.text, i, last) = object
       /\ \A k \in (1..(i - 1)) \cup ((last + 1)..Len(content.text)) :
             content.text[k] \in {"w", "{", "}", "b"}

\* C14: for a text made of a valid JSON evaluation object with
\* commentary after (or before) it, commentary with brace characters
\* included, parseEvaluationResponse returns the result built from that
\* object, not the default.
C14_FirstBalancedGroup ==
    normIn.called =>
        \A i \in 1..Len(normIn.text) :
            ObjectAt(normIn, i) =>
                /\ normOut = AsEvaluation(normIn.parsed)
                /\ ~IsDefaultEvaluation(normOut)

\* Rounding of a number given in tenths to the nearest integer, a half
\* going away from zero.
RoundHalfAwayFromZero(n) == IF n >= 0 THEN (n + 5) \div 10 ELSE -((5 - n) \div 10)
Clamp(x, lo, hi) == IF x < lo THEN lo ELSE IF x > hi THEN hi ELSE x

\* C15: for each category, a parsed score that is a number x comes out as
\* clamp(roundHalfAwayFromZero(x), 1, 10), and a score that is absent or not
\* a number comes out as 5.
C15_ScoreRoundedAndClamped ==
    (normIn.called /\ Parses(normIn)) =>
        \A name \in CategoryNames :
            LET score == normIn.parsed[name].score
            IN normOut[name].score =
                  IF score.t = "number" THEN Clamp(RoundHalfAwayFromZero(score.n), 1, 10) ELSE 5

\* A parsed score of 1.5 came out as 2.
C15_Witness ==
    /\ normIn.called
    /\ Parses(normIn)
    /\ normIn.parsed.completeness.score = Num(15)
    /\ normOut.completeness.score = 2

\* Entry i of items is a string with content once trimmed, and the number
\* of such entries among the first i.
IsValidEntry(items, i) == items[i].t = "string" /\ Length(Trim(items[i])) > 0
ValidUpTo(items, i) == Cardinality({j \in 1..i : IsValidEntry(items, j)})

\* C16: parsed suggestions that are not a list come out as the empty list;
\* a list comes out as its entries that are strings with content once
\* trimmed, each trimmed, in their order, cut to the first 5.
C16_SuggestionsFiltered ==
    (normIn.called /\ Parses(normIn)) =>
        LET items == normIn.parsed.suggestions.items
            out == normOut.suggestions
        IN IF ~normIn.parsed.suggestions.isArray
           THEN out = <<>>
           ELSE /\ Len(out) = Clamp(ValidUpTo(items, Len(items)), 0, 5)
                /\ \A k \in 1..Len(out) :
                      \E i \in 1..Len(items) :
                          /\ IsValidEntry(items, i)
                          /\ ValidUpTo(items, i) = k
                          /\ out[k] = Trim(items[i])

\* A list of seven valid entries among invalid ones came out as its first
\* five valid entries.
C16_Witness ==
    /\ normIn.called
    /\ Parses(normIn)
    /\ normIn.parsed.suggestions.isArray
    /\ ValidUpTo(normIn.parsed.suggestions.items, Len(normIn.parsed.suggestions.items)) = 7
    /\ Len(normOut.suggestions) = 5
    /\ normOut.suggestions[2] = Str(0, "s2", 2, 0)
    /\ normOut.suggestions[5] = Str(0, "s5", 2, 0)

\* A well-formed evaluation object: three categories with an integer score
\* of 1..10 and non-empty trimmed feedback, and at most 5 non-empty trimmed
\* suggestion strings.
WellFormedEvaluation(evaluation) ==
    /\ \A name \in CategoryNames :
          /\ evaluation[name].score \in 1..10
          /\ IsTrimmedText(evaluation[name].feedback)
    /\ Len(evaluation.suggestions) <= 5
    /\ \A i \in 1..Len(evaluation.suggestions) : IsTrimmedText(evaluation.suggestions[i])

\* C18: parseEvaluationResponse of the JSON text of a well-formed
\* evaluation object returns an object equal to it, field by field.
C18_RoundTrip ==
    normIn.called =>
        \A evaluation \in EvaluationObjects :
            (/\ WellFormedEvaluation(evaluation)
             /\ normIn.text = stringifyText(evaluation)
             /\ normIn.parsed = stringifyParsed(evaluation))
            => /\ normOut.ambiguity = evaluation.ambiguity
               /\ normOut.testability = evaluation.testability
               /\ normOut.completeness = evaluation.completeness
               /\ normOut.suggestions = evaluation.suggestions

\* The JSON text of an object with score 10, braces in its feedback and
\* five suggestions came back as that object.
C18_Witness ==
    /\ normIn.called
    /\ normOut \in EvaluationObjects
    /\ WellFormedEvaluation(normOut)
    /\ normIn.text = stringifyText(normOut)
    /\ normIn.parsed = stringifyParsed(normOut)
    /\ normOut.ambiguity.score = 10
    /\ normOut.ambiguity.feedback.core = WithBraces
    /\ Len(normOut.suggestions) = 5

\* ---------------------------------------------- claims on the handler
\* C19: a request with method OPTIONS, whatever its body, is answered 200
\* with the header Access-Control-Allow-Origin '*', with no validation of
\* the body, no rate-limit check, no recording and no model call: the
\* table is left as it was.
C19_OptionsState ==
    \A c \in Containers :
        (pc[c] # "idle" /\ event[c].httpMethod = "OPTIONS") =>
            /\ pc[c] = "done"
            /\ response[c].statusCode = 200
            /\ response[c].headers.AccessControlAllowOrigin = "*"
            /\ response[c].body = <<"message", "OK">>
            /\ trace[c] = <<>>
C19_OptionsStep ==
    \A c \in Containers :
        (started' # started /\ event'[c].httpMethod = "OPTIONS" /\ pc'[c] = "done") =>
            /\ table' = table
            /\ recorded' = recorded
C19_OptionsAnswered == [][C19_OptionsStep]_vars /\ []C19_OptionsState

\* An OPTIONS request whose body is not JSON has been answered 200 while
\* the table holds an item.
C19_Witness ==
    \E c \in Containers :
        /\ pc[c] = "done"
        /\ event[c].httpMethod = "OPTIONS"
        /\ event[c].body.kind = "invalid"
        /\ response[c].statusCode = 200
        /\ \E k \in Keys : table[k].exists

\* C20: checkRateLimit is read-only: from its start to its return, an
\* expired window included, it leaves every item of the table (count,
\* window start, expiry) as it was; the table changes only in the steps of
\* recording.
C20_CheckStep ==
    \A c \in Containers :
        (\/ (pc[c] \in {"idle", "done"} /\ pc'[c] \in {"check_get", "checked"})
         \/ (pc[c] = "check_get" /\ pc'[c] = "checked"))
        => table' = table
C20_WriteStep ==
    table' # table =>
        \E c \in Containers :
            /\ pc[c] \in {"record_update", "reset_update"}
            /\ pc'[c] # pc[c]
RecordAnswered(c) ==
    /\ pc[c] = "record_update"
    /\ pc'[c] # pc[c]
    /\ trace'[c][Len(trace[c]) + 1] # "updateFail"

\* C21: when recordRequest runs for an identifier whose record exists with
\* a window still current, the conditional update succeeds: it adds exactly
\* 1 to the count, leaves windowStart as it was, sets expiresAt to
\* now + 2 * WINDOW_SIZE_SECONDS and leaves the other records unchanged.
C21_IncrementStep ==
    \A c \in Containers :
        (/\ RecordAnswered(c)
         /\ table[clientIp[c]].exists
         /\ tnow[c] - table[clientIp[c]].lastReset < WINDOW_SIZE_SECONDS)
        => /\ pc'[c] = "model_send"
           /\ table'[clientIp[c]].exists
           /\ table'[clientIp[c]].requestCount = table[clientIp[c]].requestCount + 1
           /\ table'[clientIp[c]].lastReset = table[clientIp[c]].lastReset
           /\ table'[clientIp[c]].ttl = tnow[c] + 2 * WINDOW_SIZE_SECONDS
           /\ \A k \in Keys \ {clientIp[c]} : table'[k] = table[k]
C21_IncrementFrame == [][C21_IncrementStep]_vars

\* A record has been incremented at a second later than its window's
\* start, next to the record of another identifier.
C21_Witness ==
    \E c \in Containers :
        /\ pc[c] = "model_send"
        /\ trace[c][Len(trace[c]) - 2] = "update"
        /\ table[clientIp[c]].requestCount = 2
        /\ table[clientIp[c]].lastReset < tnow[c]
        /\ table[clientIp[c]].ttl = tnow[c] + 2 * WINDOW_SIZE_SECONDS
        /\ \E k \in Keys \ {clientIp[c]} : table[k].exists

\* C22: for an identifier with no record in the store, recordRequest
\* creates the record with count 1, windowStart now and expiresAt
\* now + 2 * WINDOW_SIZE_SECONDS, without taking the reset path.
C22_CreateStep ==
    \A c \in Containers :
        (RecordAnswered(c) /\ ~table[clientIp[c]].exists)
        => /\ pc'[c] = "model_send"
           /\ trace'[c][Len(trace[c]) + 1] = "update"
           /\ table'[clientIp[c]].exists
           /\ table'[clientIp[c]].requestCount = 1
           /\ table'[clientIp[c]].lastReset = tnow[c]
           /\ table'[clientIp[c]].ttl = tnow[c] + 2 * WINDOW_SIZE_SECONDS
C22_FirstRecord == [][C22_CreateStep]_vars

\* The first request of an identifier has been recorded at a second after
\* 0 without a reset.
C22_Witness ==
    \E c \in Containers :
        /\ pc[c] = "model_send"
        /\ ~InTrace(c, "reset")
        /\ InTrace(c, "update")
        /\ tnow[c] > 0
        /\ recorded[clientIp[c]] = <<tnow[c]>>
        /\ table[clientIp[c]].requestCount = 1
        /\ table[clientIp[c]].lastReset = tnow[c]

\* C23 as stated: every record of the table has
\* expiresAt = windowStart + 2 * WINDOW_SIZE_SECONDS, after any sequence of
\* record and reset steps.
C23_ExpiryFromWindowStart ==
    \A k \in Keys :
        table[k].exists => table[k].ttl = table[k].lastReset + 2 * WINDOW_SIZE_SECONDS

\* C23 as amended: every record of the table has
\* expiresAt = t + 2 * WINDOW_SIZE_SECONDS, t being the clock value of the
\* latest record or reset step the store accepted for it; with the requests
\* handled one at a time expiresAt lies between
\* windowStart + 2 * WINDOW_SIZE_SECONDS and
\* windowStart + 3 * WINDOW_SIZE_SECONDS.
C23_ExpiryFromLastWrite ==
    \A k \in Keys :
        table[k].exists =>
            /\ recorded[k] # <<>>
            /\ table[k].ttl = recorded[k][Len(recorded[k])] + 2 * WINDOW_SIZE_SECONDS
            /\ table[k].ttl >= table[k].lastReset + 2 * WINDOW_SIZE_SECONDS
            /\ table[k].ttl <= table[k].lastReset + 3 * WINDOW_SIZE_SECONDS

\* A record incremented after the second of its window's start expires
\* later than windowStart + 2 * WINDOW_SIZE_SECONDS.
C23_Witness ==
    \E k \in Keys :
        /\ table[k].exists
        /\ table[k].requestCount >= 2
        /\ table[k].ttl > table[k].lastReset + 2 * WINDOW_SIZE_SECONDS

\* C24: in every interleaving of the check, increment and reset steps of
\* concurrent requests of one identifier, the stored count of the current
\* window is at least the number of requests recorded since the window's
\* start: races only over-count, no recorded request is lost.
C24_NoLostRecord ==
    \A k \in Keys :
        table[k].exists => table[k].requestCount >= RecordedInWindow(k)

\* The containers that have taken a request so far: at most that many
\* requests have been in flight at the same time.
Used == Cardinality({c \in Containers : pc[c] # "idle"})

\* C25: with at most K requests of one identifier in flight at the same
\* time and the store available, the stored count never exceeds
\* MAX_REQUESTS_PER_WINDOW + K - 1; with one request at a time it never
\* exceeds MAX_REQUESTS_PER_WINDOW.
C25_OverCountBounded ==
    \A k \in Keys :
        table[k].exists =>
            table[k].requestCount <= MAX_REQUESTS_PER_WINDOW + (IF Used <= 1 THEN 1 ELSE Used) - 1

\* Two requests in flight together have taken the count of a current
\* window one above the quota.
C25_Witness ==
    \E k \in Keys :
        /\ table[k].exists
        /\ table[k].requestCount = MAX_REQUESTS_PER_WINDOW + 1
        /\ now - table[k].lastReset < WINDOW_SIZE_SECONDS
        /\ \A c \in Racers : pc[c] = "model_send"

\* What checkRateLimit would answer for key k at the clock's value.
LimitedNow(k) ==
    /\ table[k].exists
    /\ table[k].requestCount >= MAX_REQUESTS_PER_WINDOW
    /\ now - table[k].lastReset <= WINDOW_SIZE_SECONDS

\* C26: a request answered 429 leaves the identifier's record unchanged,
\* so rejected attempts never extend the window: with the clock advancing
\* and the store available, an identifier that is limited is allowed again
\* in the end, and every check made more than WINDOW_SIZE_SECONDS after the
\* window's start answers allowed.
C26_RejectStep ==
    \A c \in Containers :
        (pc[c] = "checked" /\ pc'[c] = "done" /\ response'[c].statusCode = 429)
        => table' = table
C26_LateCheck ==
    \A c \in Containers :
        (/\ pc[c] = "checked"
         /\ InTrace(c, "get")
         /\ seen[c].exists
         /\ tnow[c] - seen[c].lastReset > WINDOW_SIZE_SECONDS)
        => ~isRateLimited[c]
C26_LimitedThenAllowed ==
    /\ [][C26_RejectStep]_vars
    /\ []C26_LateCheck
    /\ \A k \in Keys :
          (LimitedNow(k) /\ table[k].lastReset + WINDOW_SIZE_SECONDS < MaxTime) ~> ~LimitedNow(k)

\* After a request answered 429, a check of the same record, still at its
\* quota, has answered allowed.
C26_Witness ==
    \E c \in Racers, d \in Racers :
        /\ pc[c] = "checked"
        /\ seen[c].exists
        /\ seen[c].requestCount >= MAX_REQUESTS_PER_WINDOW
        /\ tnow[c] - seen[c].lastReset > WINDOW_SIZE_SECONDS
        /\ ~isRateLimited[c]
        /\ table[clientIp[c]] = seen[c]
        /\ c # d /\ pc[d] = "done" /\ response[d].statusCode = 429

\* The store answered every call container c made in its invocation.
StoreAnswered(c) ==
    ~InTrace(c, "getFail") /\ ~InTrace(c, "updateFail") /\ ~InTrace(c, "resetFail")

\* An accepted write of container c's invocation stands before its model call.
WrittenBeforeModel(c) ==
    \E i \in 1..Len(trace[c]), j \in 1..Len(trace[c]) :
        /\ i < j
        /\ trace[c][i] \in {"update", "resetPut"}
        /\ trace[c][j] = "model"

\* C27: quota is consumed before the model is called: once the model call
\* of a request that passed the check has started (identifier not bypassed,
\* store available), the identifier's count has been incremented or reset
\* to 1, and the model's answer, a failure included, leaves the record as
\* it is.
C27_CountedAtModel ==
    \A c \in Containers :
        (InTrace(c, "model") /\ ~SkipsRateLimit(clientIp[c], skip) /\ StoreAnswered(c))
        => /\ WrittenBeforeModel(c)
           /\ table[clientIp[c]].exists
           /\ \/ table[clientIp[c]].requestCount = seen[c].requestCount + 1
              \/ table[clientIp[c]].requestCount = 1
C27_ModelStep ==
    \A c \in Containers :
        (pc[c] = "model_send" /\ pc'[c] = "done") => table' = table
C27_QuotaBeforeModel == []C27_CountedAtModel /\ [][C27_ModelStep]_vars

\* A request counted in the record whose model call failed, answered 500.
C27_Witness ==
    \E c \in Containers :
        /\ pc[c] = "done"
        /\ InTrace(c, "reply")
        /\ reply[c] \in FailedReplies
        /\ response[c].statusCode = 500
        /\ StoreAnswered(c)
        /\ ~skip
        /\ clientIp[c] \in Keys
        /\ table[clientIp[c]].requestCount = 2

\* Container c's invocation went past the limiter without a read of the table.
LimiterSkipped(c) ==
    /\ InTrace(c, "check")
    /\ InTrace(c, "allowed")
    /\ ~InTrace(c, "get")
    /\ ~InTrace(c, "getFail")

\* C28: rate limiting is skipped only when the bypass flag is set or the
\* event has neither a source address in its request context nor an
\* X-Forwarded-For header; no header value makes a request with a
\* resolvable address pass the limiter unchecked.
C28_SkippedOnlyUnresolvable ==
    \A c \in Containers :
        LimiterSkipped(c)
        => \/ skip
           \/ event[c].sourceIp = AbsentIp /\ Len(event[c].xff) = 0

\* How many calls of the labels in S container c's invocation has made.
Calls(c, S) == Cardinality({i \in 1..Len(trace[c]) : trace[c][i] \in S})

\* C29: no retry: in every invocation the handler calls the model at most
\* once and makes at most one record step, one conditional update followed
\* by at most one reset that only a rejected update starts; a failed model
\* call ends the invocation.
C29_CallsOnce ==
    \A c \in Containers :
        /\ Calls(c, {"model"}) <= 1
        /\ Calls(c, {"reply"}) <= 1
        /\ Calls(c, {"record"}) <= 1
        /\ Calls(c, {"update", "updateFail", "updateRejected"}) <= 1
        /\ Calls(c, {"reset"}) <= 1
        /\ Calls(c, {"resetPut", "resetFail"}) <= 1
        /\ Calls(c, {"reset"}) <= Calls(c, {"updateRejected"})
C29_FailedCallEnds ==
    \A c \in Containers :
        (pc[c] = "model_send" /\ trace'[c] # trace[c]) => pc'[c] = "done"
C29_NoRetry == []C29_CallsOnce /\ [][C29_FailedCallEnds]_vars

\* An invocation that reset the record after a rejected update, called the
\* model, and ended in 500 on the failed send.
C29_Witness ==
    \E c \in Containers :
        /\ pc[c] = "done"
        /\ reply[c].kind = "sendError"
        /\ response[c].statusCode = 500
        /\ Calls(c, {"model"}) = 1
        /\ Calls(c, {"updateRejected"}) = 1
        /\ Calls(c, {"resetPut"}) = 1

\* C30: every invocation ends with exactly one response, whose status is
\* 200, 400, 429 or 500 and which carries the CORS headers, whatever the
\* store and the model answer; no error leaves the handler.
C30_ResponseWhenDone ==
    \A c \in Containers :
        /\ pc[c] = "done"
           => /\ response[c].statusCode \in {200, 400, 429, 500}
              /\ response[c].headers = CORS_HEADERS
        /\ pc[c] \notin {"idle", "done"} => response[c] = NoResponse
C30_RespondsOnce ==
    \A c \in Containers :
        response'[c] # response[c]
        => \/ started' # started
           \/ pc[c] # "done" /\ pc'[c] = "done"
====
